---- MODULE Spec2Model ----
(***************************************************************************)
(* Model of dns_detector.py: the two resolvers (resolve_system,            *)
(* resolve_doh), the comparator (compare_ips) and the per-domain loop of   *)
(* main with its all_clear flag and the process exit code.                 *)
(*                                                                         *)
(* Addresses are the numbers 1..NumIPs (each stands for one dotted-quad    *)
(* string).  The outside world (getaddrinfo, the DoH endpoint) is an       *)
(* input chosen afresh at every call.                                      *)
(***************************************************************************)
EXTENDS Integers, Sequences, FiniteSets, TLC

\* ---------------------------------------------------------------- bounds
MaxDomains == 2      \* len(args.domains) ranges over 1..MaxDomains
NumIPs == 3          \* number of distinct IPv4 addresses in the universe
MaxAddrInfo == 2     \* longest getaddrinfo result list
MaxAnswer == 2       \* longest DoH "Answer" list

IPs == 1..NumIPs

\* ------------------------------------------------- inputs: getaddrinfo
\* What socket.getaddrinfo(domain, None, AF_INET) does: returns a list of
\* items (item[4][0] is the address), raises socket.gaierror, or raises
\* something else (e.g. UnicodeError for an over-long label).
AddrInfos == UNION {[1..k -> IPs] : k \in 0..MaxAddrInfo}

SystemOutcomes ==
    {[kind |-> "ok", addr_info |-> a] : a \in AddrInfos}
    \cup {[kind |-> k, addr_info |-> <<>>] : k \in {"gaierror", "Exception"}}

\* -------------------------------------------------- inputs: DoH response
\* One element of the JSON "Answer" list.  isRecord = FALSE is any JSON
\* value that is not an object (no .get); hashable = FALSE is a "data"
\* value that is a JSON list or object (cannot be added to a set).
NonRecord ==
    [isRecord |-> FALSE, type |-> 0, hasData |-> FALSE, hashable |-> FALSE, data |-> 0]

RecordTypes == {1, 5}

Entries ==
    {[isRecord |-> TRUE, type |-> t, hasData |-> TRUE, hashable |-> TRUE, data |-> d] :
        t \in RecordTypes, d \in IPs}
    \cup {[isRecord |-> TRUE, type |-> t, hasData |-> FALSE, hashable |-> TRUE, data |-> 0] :
        t \in RecordTypes}
    \cup {[isRecord |-> TRUE, type |-> t, hasData |-> TRUE, hashable |-> FALSE, data |-> 0] :
        t \in RecordTypes}
    \cup {NonRecord}

AnswerLists == UNION {[1..k -> Entries] : k \in 0..MaxAnswer}

\* The "Answer" key of the body: absent, present but not a list, or a list.
Answers ==
    {[present |-> FALSE, isList |-> FALSE, items |-> <<>>],
     [present |-> TRUE, isList |-> FALSE, items |-> <<>>]}
    \cup {[present |-> TRUE, isList |-> TRUE, items |-> s] : s \in AnswerLists}

NoAnswer == [present |-> FALSE, isList |-> FALSE, items |-> <<>>]

\* The "Status" key of the body: absent (data.get gives None), 0, or a DNS
\* error code (3 = NXDOMAIN).
Statuses ==
    {[present |-> FALSE, code |-> 0], [present |-> TRUE, code |-> 0],
     [present |-> TRUE, code |-> 3]}

NoStatus == [present |-> FALSE, code |-> 0]

\* kind: "RequestException" (connection, timeout, TLS), "HTTPError" (4xx/5xx,
\* raised by raise_for_status), "JSONDecodeError" (body does not parse),
\* "NotObject" (body parses to a JSON value that is not an object), "object".
FailedResponses ==
    {[kind |-> k, Status |-> NoStatus, Answer |-> NoAnswer] :
        k \in {"RequestException", "HTTPError", "JSONDecodeError", "NotObject"}}

ObjectResponses ==
    {[kind |-> "object", Status |-> s, Answer |-> a] : s \in Statuses, a \in Answers}

Responses == FailedResponses \cup ObjectResponses

NoResponse == [kind |-> "none", Status |-> NoStatus, Answer |-> NoAnswer]

\* ---------------------------------------------------------------- state
VARIABLES
    pc,              \* position in main (or in the comparator harness)
    n,               \* len(args.domains)
    idx,             \* number of the domain being processed (1-based)
    sys_ips,         \* main's sys_ips
    doh_ips,         \* main's doh_ips
    suspicious_ips,  \* main's suspicious_ips ({} until line 147 assigns it)
    all_clear,       \* main's all_clear
    exit_code,       \* process exit status; -1 while running
    state,           \* terminal state of the current domain's orchestration
    verdict,         \* verdict line printed for the current domain
    compare_called,  \* compare_ips was invoked for the current domain
    sys_attempts,    \* resolve_system invocations for the current domain
    doh_attempts,    \* resolve_doh invocations for the current domain
    sys_diag,        \* stderr lines written by resolve_system for this domain
    doh_diag,        \* stderr lines written by resolve_doh for this domain
    sys_outcome,     \* what getaddrinfo did for the current domain
    response,        \* what the DoH endpoint answered for the current domain
    discrepancy      \* some domain so far had both sets non-empty and sys - doh non-empty

vars == <<pc, n, idx, sys_ips, doh_ips, suspicious_ips, all_clear, exit_code,
          state, verdict, compare_called, sys_attempts, doh_attempts,
          sys_diag, doh_diag, sys_outcome, response, discrepancy>>

\* ------------------------------------------------------- resolve_system
\* for item in addr_info: ips.add(item[4][0])
RECURSIVE CollectAddrs(_, _, _)
CollectAddrs(addr_info, i, ips) ==
    IF i > Len(addr_info) THEN ips
    ELSE CollectAddrs(addr_info, i + 1, ips \cup {addr_info[i]})

\* A resolver that lacks the catch-all handler lets the error escape.
resolve_system_NoCatchAll(outcome) ==
    IF outcome.kind = "ok"
    THEN [ips |-> CollectAddrs(outcome.addr_info, 1, {}), diag |-> 0, raised |-> FALSE]
    ELSE IF outcome.kind = "gaierror"
    THEN [ips |-> {}, diag |-> 1, raised |-> FALSE]
    ELSE [ips |-> {}, diag |-> 0, raised |-> TRUE]

resolve_system(outcome) ==
    IF outcome.kind = "ok"
    THEN [ips |-> CollectAddrs(outcome.addr_info, 1, {}), diag |-> 0, raised |-> FALSE]
    ELSE IF outcome.kind = "gaierror"
    THEN [ips |-> {}, diag |-> 1, raised |-> FALSE]      \* except socket.gaierror
    ELSE [ips |-> {}, diag |-> 1, raised |-> FALSE]      \* except Exception

\* ---------------------------------------------------------- resolve_doh
\* A filter that forgets the type test takes the data of every record.
IsARecord_AnyType(record) == record.hasData

\* if record.get('type') == 1 and 'data' in record
IsARecord(record) == record.type = 1 /\ record.hasData

\* An extraction that guards each record on its own skips the offending
\* entry and goes on with the rest of the list.
RECURSIVE ExtractAnswer_SkipBad(_, _, _)
ExtractAnswer_SkipBad(items, i, ips) ==
    IF i > Len(items) THEN [ips |-> ips, raised |-> FALSE]
    ELSE LET record == items[i] IN
         IF ~record.isRecord \/ (IsARecord(record) /\ ~record.hashable)
         THEN LET rest == ExtractAnswer_SkipBad(items, i + 1, ips)
              IN [ips |-> rest.ips, raised |-> TRUE]
         ELSE IF IsARecord(record)
         THEN ExtractAnswer_SkipBad(items, i + 1, ips \cup {record.data})
         ELSE ExtractAnswer_SkipBad(items, i + 1, ips)

\* for record in data['Answer']: ... ips.add(record['data'])
\* record.get on a non-object raises AttributeError, ips.add of an
\* unhashable value raises TypeError; either leaves the loop with the
\* addresses added so far.
RECURSIVE ExtractAnswer(_, _, _)
ExtractAnswer(items, i, ips) ==
    IF i > Len(items) THEN [ips |-> ips, raised |-> FALSE]
    ELSE LET record == items[i] IN
         IF ~record.isRecord THEN [ips |-> ips, raised |-> TRUE]
         ELSE IF IsARecord(record)
         THEN IF ~record.hashable THEN [ips |-> ips, raised |-> TRUE]
              ELSE ExtractAnswer(items, i + 1, ips \cup {record.data})
         ELSE ExtractAnswer(items, i + 1, ips)

\* data.get('Status') == 0
StatusIsZero(data) == data.Status.present /\ data.Status.code = 0

\* A resolver whose warning branch is missing returns silently on a
\* non-zero Status.
resolve_doh_SilentStatus(resp) ==
    IF resp.kind # "object"
    THEN [ips |-> {}, diag |-> 1, raised |-> FALSE]
    ELSE IF StatusIsZero(resp) /\ resp.Answer.present /\ resp.Answer.isList
    THEN LET r == ExtractAnswer(resp.Answer.items, 1, {})
         IN [ips |-> r.ips, diag |-> IF r.raised THEN 1 ELSE 0, raised |-> FALSE]
    ELSE [ips |-> {}, diag |-> 0, raised |-> FALSE]

resolve_doh(resp) ==
    IF resp.kind \in {"RequestException", "HTTPError"}
    THEN [ips |-> {}, diag |-> 1, raised |-> FALSE]       \* except RequestException
    ELSE IF resp.kind = "JSONDecodeError"
    THEN [ips |-> {}, diag |-> 1, raised |-> FALSE]       \* except JSONDecodeError
    ELSE IF resp.kind = "NotObject"
    THEN [ips |-> {}, diag |-> 1, raised |-> FALSE]       \* data.get: except Exception
    ELSE IF StatusIsZero(resp) /\ resp.Answer.present /\ resp.Answer.isList
    THEN LET r == ExtractAnswer(resp.Answer.items, 1, {})
         IN [ips |-> r.ips, diag |-> IF r.raised THEN 1 ELSE 0, raised |-> FALSE]
    ELSE IF ~StatusIsZero(resp)
    THEN [ips |-> {}, diag |-> 1, raised |-> FALSE]       \* DoH Warning: Status code
    ELSE [ips |-> {}, diag |-> 0, raised |-> FALSE]

\* ---------------------------------------------------------- compare_ips
\* A comparator without the emptiness guard.
compare_ips_NoGuard(s, d) == s \ d

\* A comparator that flags every uncorroborated address of either side.
compare_ips_Symmetric(s, d) ==
    IF s = {} \/ d = {} THEN {} ELSE (s \ d) \cup (d \ s)

compare_ips(s, d) ==
    IF s = {} \/ d = {} THEN {} ELSE s \ d

\* ----------------------------------------------------------------- main
Init ==
    /\ pc = "for"
    /\ n \in 1..MaxDomains
    /\ idx = 0
    /\ sys_ips = {}
    /\ doh_ips = {}
    /\ suspicious_ips = {}
    /\ all_clear = TRUE
    /\ exit_code = -1
    /\ state = "None"
    /\ verdict = "none"
    /\ compare_called = FALSE
    /\ sys_attempts = 0
    /\ doh_attempts = 0
    /\ sys_diag = 0
    /\ doh_diag = 0
    /\ sys_outcome = "none"
    /\ response = NoResponse
    /\ discrepancy = FALSE

\* for domain in args.domains: the next domain is taken.  sys_ips, doh_ips
\* and suspicious_ips are assigned before they are read in every
\* iteration, so their stale values are dropped here.
NextDomain ==
    /\ pc = "for"
    /\ idx < n
    /\ idx' = idx + 1
    /\ pc' = "resolve_system"
    /\ sys_ips' = {}
    /\ doh_ips' = {}
    /\ suspicious_ips' = {}
    /\ state' = "None"
    /\ verdict' = "none"
    /\ compare_called' = FALSE
    /\ sys_attempts' = 0
    /\ doh_attempts' = 0
    /\ sys_diag' = 0
    /\ doh_diag' = 0
    /\ sys_outcome' = "none"
    /\ response' = NoResponse
    /\ UNCHANGED <<n, all_clear, exit_code, discrepancy>>

\* An uncaught exception ends the process with a traceback and status 1.
Crash ==
    /\ pc' = "crashed"
    /\ exit_code' = 1

\* A caller that skips the trusted lookup once the system lookup failed.
CallResolveSystem_SkipDoH ==
    /\ pc = "resolve_system"
    /\ \E outcome \in SystemOutcomes :
        LET r == resolve_system(outcome) IN
        /\ sys_ips' = r.ips
        /\ sys_diag' = sys_diag + r.diag
        /\ sys_outcome' = outcome.kind
        /\ sys_attempts' = sys_attempts + 1
        /\ pc' = IF r.ips = {} THEN "classify" ELSE "resolve_doh"
        /\ exit_code' = exit_code
    /\ UNCHANGED <<n, idx, doh_ips, suspicious_ips, all_clear, state, verdict,
                   compare_called, doh_attempts, doh_diag, response, discrepancy>>

\* sys_ips = resolve_system(domain)
CallResolveSystem ==
    /\ pc = "resolve_system"
    /\ \E outcome \in SystemOutcomes :
        LET r == resolve_system(outcome) IN
        /\ sys_ips' = r.ips
        /\ sys_diag' = sys_diag + r.diag
        /\ sys_outcome' = outcome.kind
        /\ sys_attempts' = sys_attempts + 1
        /\ IF r.raised THEN Crash
           ELSE pc' = "resolve_doh" /\ exit_code' = exit_code
    /\ UNCHANGED <<n, idx, doh_ips, suspicious_ips, all_clear, state, verdict,
                   compare_called, doh_attempts, doh_diag, response, discrepancy>>

\* doh_ips = resolve_doh(domain)
CallResolveDoh ==
    /\ pc = "resolve_doh"
    /\ \E resp \in Responses :
        LET r == resolve_doh(resp) IN
        /\ doh_ips' = r.ips
        /\ doh_diag' = doh_diag + r.diag
        /\ response' = resp
        /\ doh_attempts' = doh_attempts + 1
        /\ discrepancy' = (discrepancy \/
                             (sys_ips # {} /\ r.ips # {} /\ sys_ips \ r.ips # {}))
        /\ IF r.raised THEN Crash
           ELSE pc' = "classify" /\ exit_code' = exit_code
    /\ UNCHANGED <<n, idx, sys_ips, suspicious_ips, all_clear, state, verdict,
                   compare_called, sys_attempts, sys_diag, sys_outcome>>

\* if not sys_ips and not doh_ips: ... continue
BothFailed ==
    /\ pc = "classify"
    /\ sys_ips = {} /\ doh_ips = {}
    /\ state' = "BothFailed"
    /\ verdict' = "inconclusive"
    /\ pc' = "for"
    /\ UNCHANGED <<n, idx, sys_ips, doh_ips, suspicious_ips, all_clear, exit_code,
                   compare_called, sys_attempts, doh_attempts, sys_diag, doh_diag,
                   sys_outcome, response, discrepancy>>

\* if not sys_ips: ... continue
SystemFailed ==
    /\ pc = "classify"
    /\ ~(sys_ips = {} /\ doh_ips = {})
    /\ sys_ips = {}
    /\ state' = "SystemFailed"
    /\ verdict' = "inconclusive"
    /\ pc' = "for"
    /\ UNCHANGED <<n, idx, sys_ips, doh_ips, suspicious_ips, all_clear, exit_code,
                   compare_called, sys_attempts, doh_attempts, sys_diag, doh_diag,
                   sys_outcome, response, discrepancy>>

\* A loop that takes the option noted at line 145 and counts a missing
\* trusted answer as a discrepancy.
DoHFailed_Flagged ==
    /\ pc = "classify"
    /\ ~(sys_ips = {} /\ doh_ips = {})
    /\ sys_ips # {}
    /\ doh_ips = {}
    /\ state' = "DoHFailed"
    /\ verdict' = "WARNING"
    /\ all_clear' = FALSE
    /\ pc' = "for"
    /\ UNCHANGED <<n, idx, sys_ips, doh_ips, suspicious_ips, exit_code,
                   compare_called, sys_attempts, doh_attempts, sys_diag, doh_diag,
                   sys_outcome, response, discrepancy>>

\* if not doh_ips: ... continue
DoHFailed ==
    /\ pc = "classify"
    /\ ~(sys_ips = {} /\ doh_ips = {})
    /\ sys_ips # {}
    /\ doh_ips = {}
    /\ state' = "DoHFailed"
    /\ verdict' = "inconclusive"
    /\ pc' = "for"
    /\ UNCHANGED <<n, idx, sys_ips, doh_ips, suspicious_ips, all_clear, exit_code,
                   compare_called, sys_attempts, doh_attempts, sys_diag, doh_diag,
                   sys_outcome, response, discrepancy>>

\* A loop that writes the flag from the current domain alone.
Compared_Overwrite ==
    /\ pc = "classify"
    /\ sys_ips # {} /\ doh_ips # {}
    /\ suspicious_ips' = compare_ips(sys_ips, doh_ips)
    /\ compare_called' = TRUE
    /\ all_clear' = (suspicious_ips' = {})
    /\ verdict' = IF suspicious_ips' # {} THEN "WARNING" ELSE "OK"
    /\ state' = "Compared"
    /\ pc' = "for"
    /\ UNCHANGED <<n, idx, sys_ips, doh_ips, exit_code, sys_attempts, doh_attempts,
                   sys_diag, doh_diag, sys_outcome, response, discrepancy>>

\* suspicious_ips = compare_ips(sys_ips, doh_ips); if suspicious_ips: ... else: ...
Compared ==
    /\ pc = "classify"
    /\ ~(sys_ips = {} /\ doh_ips = {})
    /\ sys_ips # {}
    /\ doh_ips # {}
    /\ suspicious_ips' = compare_ips(sys_ips, doh_ips)
    /\ compare_called' = TRUE
    /\ all_clear' = IF suspicious_ips' # {} THEN FALSE ELSE all_clear
    /\ verdict' = IF suspicious_ips' # {} THEN "WARNING" ELSE "OK"
    /\ state' = "Compared"
    /\ pc' = "for"
    /\ UNCHANGED <<n, idx, sys_ips, doh_ips, exit_code, sys_attempts, doh_attempts,
                   sys_diag, doh_diag, sys_outcome, response, discrepancy>>

\* After the loop: the summary line, and sys.exit(1) unless all_clear.
CheckComplete ==
    /\ pc = "for"
    /\ idx = n
    /\ exit_code' = IF all_clear THEN 0 ELSE 1
    /\ pc' = "done"
    /\ UNCHANGED <<n, idx, sys_ips, doh_ips, suspicious_ips, all_clear, state,
                   verdict, compare_called, sys_attempts, doh_attempts, sys_diag,
                   doh_diag, sys_outcome, response, discrepancy>>

Next ==
    \/ NextDomain
    \/ CallResolveSystem
    \/ CallResolveDoh
    \/ BothFailed
    \/ SystemFailed
    \/ DoHFailed
    \/ Compared
    \/ CheckComplete

Spec == Init /\ [][Next]_vars

\* ------------------------------------------- the comparator on its own
\* compare_ips applied to every pair of address sets, the pairs main never
\* passes (an empty side) included.
InitCompare ==
    /\ pc = "compare_call"
    /\ n = 1
    /\ idx = 1
    /\ sys_ips \in SUBSET IPs
    /\ doh_ips \in SUBSET IPs
    /\ suspicious_ips = {}
    /\ all_clear = TRUE
    /\ exit_code = -1
    /\ state = "None"
    /\ verdict = "none"
    /\ compare_called = FALSE
    /\ sys_attempts = 0
    /\ doh_attempts = 0
    /\ sys_diag = 0
    /\ doh_diag = 0
    /\ sys_outcome = "none"
    /\ response = NoResponse
    /\ discrepancy = FALSE

CompareCall ==
    /\ pc = "compare_call"
    /\ suspicious_ips' = compare_ips(sys_ips, doh_ips)
    /\ compare_called' = TRUE
    /\ pc' = "compare_returned"
    /\ UNCHANGED <<n, idx, sys_ips, doh_ips, all_clear, exit_code, state, verdict,
                   sys_attempts, doh_attempts, sys_diag, doh_diag, sys_outcome,
                   response, discrepancy>>

NextCompare == CompareCall

SpecCompare == InitCompare /\ [][NextCompare]_vars

\* ================================================================ claims
\* The DoH lookup of the current domain has returned.
AfterDoh == pc \in {"classify", "for", "done"} /\ response.kind # "none"

\* The current domain has reached its terminal state.
Classified == pc \in {"for", "done"} /\ state # "None"

FailedStates == {"BothFailed", "SystemFailed", "DoHFailed"}

ExpectedState(s, d) ==
    IF s = {} /\ d = {} THEN "BothFailed"
    ELSE IF s = {} THEN "SystemFailed"
    ELSE IF d = {} THEN "DoHFailed"
    ELSE "Compared"

\* The response is a JSON object with Status 0 and a list-valued Answer.
ListAnswer ==
    /\ response.kind = "object"
    /\ response.Status.present /\ response.Status.code = 0
    /\ response.Answer.present /\ response.Answer.isList

Items == response.Answer.items

\* An entry the extraction loop cannot handle.
Offending(e) == ~e.isRecord \/ (e.type = 1 /\ e.hasData /\ ~e.hashable)

\* The data values of the type-1 records with data among the first k entries.
TypeOneData(k) ==
    {Items[i].data : i \in {j \in 1..k : Items[j].type = 1 /\ Items[j].hasData}}

\* C1: failure never implies suspicion: once both lookups of a domain have
\* returned, an empty system set or an empty DoH set means that compare_ips
\* of the two sets is empty, that no suspicious set was produced for the
\* domain and that its verdict is not WARNING.
C1_FailureNeverSuspicion ==
    (AfterDoh /\ (sys_ips = {} \/ doh_ips = {})) =>
        /\ compare_ips(sys_ips, doh_ips) = {}
        /\ suspicious_ips = {}
        /\ verdict # "WARNING"

C1_Witness ==
    Classified /\ sys_ips # {} /\ doh_ips = {} /\ verdict = "inconclusive"

\* C2 as stated: compare_ips(A, B) equals A - B for all A and B, the empty
\* ones included.
C2_Original ==
    pc = "compare_returned" => suspicious_ips = sys_ips \ doh_ips

\* C2 as amended: compare_ips(A, B) equals A - B whenever B is not empty,
\* and is empty (not A) when B is empty.
C2_Amended ==
    pc = "compare_returned" =>
        suspicious_ips = (IF doh_ips = {} THEN {} ELSE sys_ips \ doh_ips)

C2_Witness ==
    pc = "compare_returned" /\ sys_ips # {} /\ doh_ips = {} /\ suspicious_ips = {}

\* C3: the exit code is 1 exactly when some domain of the run had both sets
\* non-empty and system - DoH non-empty, and 0 otherwise; a cleared all_clear
\* is never restored, and a domain ending in a failed state leaves it as it was.
C3_ExitCode ==
    /\ [](pc = "done" => /\ exit_code \in {0, 1}
                         /\ (exit_code = 1) <=> discrepancy)
    /\ []((pc = "for" /\ idx > 0) => (all_clear <=> ~discrepancy))
    /\ [][/\ (~all_clear => ~all_clear')
          /\ ((pc = "classify" /\ (sys_ips = {} \/ doh_ips = {}))
                 => all_clear' = all_clear)]_vars

C3_Witness ==
    /\ pc = "done" /\ exit_code = 1
    /\ idx = 2 /\ state = "Compared" /\ verdict = "OK"

\* C4: a domain ends in exactly the state its two sets' emptiness selects;
\* compare_ips is invoked in Compared and nowhere else; the three failed
\* states leave all_clear unchanged.
C4_Orchestration ==
    /\ [](Classified => /\ state = ExpectedState(sys_ips, doh_ips)
                        /\ (compare_called <=> state = "Compared"))
    /\ [](pc \in {"resolve_system", "resolve_doh", "classify"} =>
             state = "None" /\ ~compare_called)
    /\ [][pc = "classify" =>
             /\ state' \in FailedStates \cup {"Compared"}
             /\ (state' \in FailedStates =>
                    all_clear' = all_clear /\ suspicious_ips' = suspicious_ips)]_vars

C4_Witness ==
    Classified /\ state = "DoHFailed" /\ idx = 2 /\ ~all_clear

\* C5: no failure kind ends the program, and each gives an empty set: a
\* gaierror or any other error in resolve_system; a transport error, an HTTP
\* error status, an unparsable body or a non-zero Status in resolve_doh.
\* The domain is then classified and the loop runs to the last domain.
C5_DegradeToEmpty ==
    /\ pc # "crashed"
    /\ (sys_outcome \in {"gaierror", "Exception"} => sys_ips = {} /\ sys_diag = 1)
    /\ ((AfterDoh /\ response.kind \in {"RequestException", "HTTPError", "JSONDecodeError"})
           => doh_ips = {} /\ doh_diag = 1)
    /\ ((AfterDoh /\ response.kind = "object"
           /\ ~(response.Status.present /\ response.Status.code = 0))
           => doh_ips = {} /\ doh_diag = 1)
    /\ ((pc = "for" /\ idx > 0) => state \in FailedStates \cup {"Compared"})
    /\ (pc = "done" => idx = n /\ exit_code \in {0, 1})
    /\ (pc = "done" \/ ENABLED Next)

C5_Witness ==
    /\ pc = "done" /\ idx = 2 /\ exit_code = 0
    /\ sys_outcome = "Exception" /\ response.kind = "HTTPError"

\* C6: with Status 0 and an Answer that is a list of records (data, where
\* present, a string), resolve_doh returns exactly the data of the records
\* of type 1 that carry data, without a diagnostic.
C6_TypeOneOnly ==
    (AfterDoh /\ ListAnswer
              /\ (\A i \in 1..Len(Items) : Items[i].isRecord /\ Items[i].hashable)) =>
        /\ doh_ips = TypeOneData(Len(Items))
        /\ doh_diag = 0

C6_Witness ==
    /\ AfterDoh /\ ListAnswer /\ Len(Items) = 2
    /\ Items[1].isRecord /\ Items[1].type = 5 /\ Items[1].hasData /\ Items[1].hashable
    /\ Items[2].isRecord /\ Items[2].type = 1 /\ Items[2].hasData /\ Items[2].hashable
    /\ Items[1].data # Items[2].data
    /\ doh_ips = {Items[2].data}

\* C7: compare_ips(A, B) is a subset of A, shares no element with B, and
\* compare_ips(A, A) is empty.
C7_Asymmetric ==
    pc = "compare_returned" =>
        /\ suspicious_ips \subseteq sys_ips
        /\ suspicious_ips \cap doh_ips = {}
        /\ (sys_ips = doh_ips => suspicious_ips = {})

C7_Witness ==
    /\ pc = "compare_returned"
    /\ doh_ips \ sys_ips # {}
    /\ suspicious_ips # {}

Rank(p) ==
    CASE p = "resolve_system" -> 1
      [] p = "resolve_doh" -> 2
      [] p = "classify" -> 3
      [] p = "for" -> 4
      [] p = "done" -> 5
      [] OTHER -> 0

\* C8: every domain gets exactly one resolve_system call and exactly one
\* resolve_doh call (the latter also after a failed system lookup), the
\* steps of a domain are never revisited, and the run ends after the last
\* domain.
C8_SinglePass ==
    /\ [](pc = "resolve_system" => sys_attempts = 0 /\ doh_attempts = 0)
    /\ [](pc = "resolve_doh" => sys_attempts = 1 /\ doh_attempts = 0)
    /\ []((pc = "classify" \/ (pc \in {"for", "done"} /\ idx > 0)) =>
             sys_attempts = 1 /\ doh_attempts = 1)
    /\ [](pc = "done" => idx = n)
    /\ [](pc = "done" \/ ENABLED Next)
    /\ [][\/ (idx' = idx /\ Rank(pc') > Rank(pc))
          \/ (idx' = idx + 1 /\ pc = "for" /\ pc' = "resolve_system")]_vars

C8_Witness ==
    /\ pc = "done" /\ idx = 2
    /\ sys_outcome = "gaierror" /\ sys_attempts = 1
    /\ response.kind = "object" /\ doh_attempts = 1 /\ doh_ips # {}

\* The first entry of the Answer list the extraction loop cannot handle.
FirstOffending ==
    CHOOSE k \in 1..Len(Items) :
        Offending(Items[k]) /\ \A j \in 1..(k - 1) : ~Offending(Items[j])

SilentEmpty ==
    /\ response.kind = "object"
    /\ response.Status.present /\ response.Status.code = 0
    /\ \/ ~response.Answer.present
       \/ ~response.Answer.isList
       \/ \A i \in 1..Len(Items) :
              Items[i].isRecord /\ ~(Items[i].type = 1 /\ Items[i].hasData)

\* C10 as stated: a response with Status 0 that yields no address gives the
\* empty set without any diagnostic.
C10_Original ==
    (AfterDoh /\ response.kind = "object"
              /\ response.Status.present /\ response.Status.code = 0
              /\ doh_ips = {}) => doh_diag = 0

\* C10 as amended: a response with Status 0 whose Answer is absent, not a
\* list, or a list of record objects without a type-1 record with data gives
\* the empty set without a diagnostic; every other empty result comes with
\* exactly one diagnostic; either way the domain ends DoHFailed or
\* BothFailed and all_clear is left as it was.
C10_Amended ==
    /\ []((AfterDoh /\ SilentEmpty) => doh_ips = {} /\ doh_diag = 0)
    /\ []((AfterDoh /\ doh_ips = {} /\ ~SilentEmpty) => doh_diag = 1)
    /\ []((Classified /\ doh_ips = {}) =>
             state \in {"DoHFailed", "BothFailed"} /\ verdict = "inconclusive")
    /\ [][(pc = "classify" /\ doh_ips = {}) => all_clear' = all_clear]_vars

C10_Witness ==
    /\ Classified /\ SilentEmpty
    /\ response.Answer.isList /\ Len(Items) = 2
    /\ state = "DoHFailed" /\ doh_diag = 0

====
